---- MODULE Spec2Model ----
(***************************************************************************)
(* Expression compilation of the query planner                             *)
(* (src/query/sql/src/planner/expression_parser.rs): binding a table into  *)
(* a name-resolution scope, resolving parsed expressions, lowering them to *)
(* column positions, filters, default values, computed columns and the     *)
(* linear and Hilbert clustering keys.                                     *)
(*                                                                         *)
(* Every public entry point is a pure function of its arguments.  The      *)
(* state holds the arguments of a call (table_meta, sql, field), the entry *)
(* point that ran last (op) and what it returned (ret).  Init draws the    *)
(* arguments from bounded sets and each action applies one entry point.    *)
(*                                                                         *)
(* The scan source of storages/parquet/src/parquet_rs/source.rs is a       *)
(* second state machine over the same module, SourceSpec.                  *)
(***************************************************************************)
EXTENDS Integers, Sequences, FiniteSets, TLC

VARIABLES table_meta, sql, field, op, ret,
          source, output, scan_progress, copy_status, ctx, scheduled, history

vars == <<table_meta, sql, field, op, ret,
          source, output, scan_progress, copy_status, ctx, scheduled, history>>

(***************************************************************************)
(* Bounds of the model and constants of the program.                       *)
(***************************************************************************)
\* longest tuple of clustering keys drawn as input
MaxDims == 6
\* most top-level comma separated expressions drawn as input
MaxTop == 3
\* most partitions the context hands out to the scan source
MaxParts == 2

\* (2..=5).contains(&expr_len)
HilbertMinDims == 2
HilbertMaxDims == 5
\* max_size.min(8)
HilbertMaxWidth == 8
\* DataType::String => Ok(24)
HilbertStringWidth == 24
\* substr(expr, 1, 8)
SubstrFrom == 1
SubstrLen == 8
\* vec![0xFF; max_size]
SentinelByte == 255

(***************************************************************************)
(* Result<T>: Ok(v), Err(ErrorCode) and a panic (unreachable!, an index    *)
(* out of bounds), which unwinds instead of returning.                     *)
(***************************************************************************)
Ok(v) == [tag |-> "Ok", code |-> "", val |-> v]
Err(code, msg) == [tag |-> "Err", code |-> code, val |-> msg]
Panic(msg) == [tag |-> "Panic", code |-> "panic", val |-> msg]
NoRet == [tag |-> "None", code |-> "", val |-> <<>>]

IsOk(r) == r.tag = "Ok"
IsErr(r) == r.tag = "Err"
IsPanic(r) == r.tag = "Panic"

\* a sequence of results in evaluation order: the first failure, if any
RECURSIVE FirstFailure(_)
FirstFailure(rs) ==
    IF rs = <<>> THEN NoRet
    ELSE IF ~IsOk(Head(rs)) THEN Head(rs)
    ELSE FirstFailure(Tail(rs))

AllOk(rs) == \A i \in 1..Len(rs) : IsOk(rs[i])
Vals(rs) == [i \in 1..Len(rs) |-> rs[i].val]

Max(a, b) == IF a >= b THEN a ELSE b
Min(a, b) == IF a <= b THEN a ELSE b

(***************************************************************************)
(* DataType.  A type is its base and whether it is wrapped in Nullable.    *)
(***************************************************************************)
T(b) == [base |-> b, nullable |-> FALSE]
wrap_nullable(t) == [t EXCEPT !.nullable = TRUE]
remove_nullable(t) == [t EXCEPT !.nullable = FALSE]
is_nullable(t) == t.nullable
NoType == T("?")

IntTypes == {"Int8", "Int16", "Int32", "Int64", "UInt8", "UInt16", "UInt32", "UInt64"}
NumberTypes == IntTypes \cup {"Float32", "Float64"}
DecimalTypes == {"Decimal128", "Decimal256"}

\* DataType::numeric_byte_size: the natural byte width of a numeric-like type
numeric_byte_size(t) ==
    CASE t.base \in {"Int8", "UInt8"} -> 1
      [] t.base \in {"Int16", "UInt16"} -> 2
      [] t.base \in {"Int32", "UInt32", "Float32", "Date"} -> 4
      [] t.base \in {"Int64", "UInt64", "Float64", "Timestamp"} -> 8
      [] t.base = "Decimal128" -> 16
      [] t.base = "Decimal256" -> 32
      [] OTHER -> 0

(***************************************************************************)
(* Scalar values.                                                          *)
(***************************************************************************)
Null == [t |-> "Null", v |-> 0]
Num(n) == [t |-> "Number", v |-> n]
Bool(b) == [t |-> "Boolean", v |-> b]
Str(s) == [t |-> "String", v |-> s]
Binary(bytes) == [t |-> "Binary", v |-> bytes]
EvalError == [t |-> "EvalError", v |-> 0]

\* Scalar::default_value
default_value(t) ==
    IF t.nullable THEN Null
    ELSE CASE t.base \in NumberTypes \cup DecimalTypes \cup {"Date", "Timestamp"} -> Num(0)
           [] t.base = "Boolean" -> Bool(FALSE)
           [] t.base = "String" -> Str("")
           [] t.base = "Binary" -> Binary(<<>>)
           [] OTHER -> Null

(***************************************************************************)
(* Tables.  A table has a name and an ordered list of fields; a field of   *)
(* tuple type lists its inner fields.  Metadata::add_table registers one   *)
(* column entry per field and one entry with path indices per inner field  *)
(* of a tuple: after all the fields, or each right after its tuple         *)
(* (inner_first), the two orders a registry may keep them in.              *)
(***************************************************************************)
Field(n, t) == [name |-> n, data_type |-> t, inner |-> <<>>]
TupleField(n, inner) == [name |-> n, data_type |-> T("Tuple"), inner |-> inner]

\* table_meta.schema(): the top-level fields
schema(table) == table.fields

BaseTableColumn(n, t, path) ==
    [kind |-> "BaseTableColumn", column_name |-> n, data_type |-> t, path_indices |-> path]

RECURSIVE InnerColumns(_, _)
InnerColumns(fields, i) ==
    IF i > Len(fields) THEN <<>>
    ELSE [j \in 1..Len(fields[i].inner) |->
             BaseTableColumn(fields[i].name \o ":" \o fields[i].inner[j].name,
                             fields[i].inner[j].data_type, <<i - 1, j - 1>>)]
         \o InnerColumns(fields, i + 1)

\* the entry of every field, each followed by the entries of its inner fields
RECURSIVE InnerFirstColumns(_, _)
InnerFirstColumns(fields, i) ==
    IF i > Len(fields) THEN <<>>
    ELSE <<BaseTableColumn(fields[i].name, fields[i].data_type, <<>>)>>
         \o InnerColumns(SubSeq(fields, 1, i), i)
         \o InnerFirstColumns(fields, i + 1)

\* metadata.read().columns_by_table_index(table_index) after add_table
columns_by_table_index(table) ==
    (IF table.inner_first
     THEN InnerFirstColumns(table.fields, 1)
     ELSE [i \in 1..Len(table.fields) |->
              BaseTableColumn(table.fields[i].name, table.fields[i].data_type, <<>>)]
          \o InnerColumns(table.fields, 1))
    \o table.extra

(***************************************************************************)
(* bind_table: one binding per column entry, position = place in the list. *)
(***************************************************************************)
ColumnBinding(n, index, t, visibility) ==
    [column_name |-> n, index |-> index, data_type |-> t, visibility |-> visibility]

\* the visibility bind_table gives a column entry
BindVisibility(column) ==
    IF column.path_indices # <<>> THEN "InVisible" ELSE "Visible"

\* the position bind_table gives the column entry at place i (1-based)
BindIndex(i) == i - 1

\* the loop of bind_table over the column entries
bind_columns(columns) ==
    IF \E i \in 1..Len(columns) : columns[i].kind # "BaseTableColumn"
    THEN Err("Internal", "Invalid column entry")
    ELSE Ok([i \in 1..Len(columns) |->
                ColumnBinding(columns[i].column_name, BindIndex(i),
                              columns[i].data_type, BindVisibility(columns[i]))])

bind_table(table) == bind_columns(columns_by_table_index(table))

(***************************************************************************)
(* The parsed expressions (AExpr) a text stands for.                       *)
(***************************************************************************)
Ident(n) == [k |-> "ColumnRef", name |-> n]
MapAccess(n, key) == [k |-> "MapAccess", name |-> n, key |-> key]
Lit(t, v) == [k |-> "Literal", data_type |-> t, value |-> v]
Call(f, args) == [k |-> "FunctionCall", name |-> f, args |-> args]
TupleAst(es) == [k |-> "Tuple", exprs |-> es]

\* the name-resolution policy: unquoted identifiers are case-insensitive
NormalizeIdent(n) ==
    CASE n = "A" -> "a"
      [] n = "S" -> "s"
      [] OTHER -> n

(***************************************************************************)
(* The function registry: the return type of a call, NoType when no        *)
(* signature of the name takes the argument types.                         *)
(***************************************************************************)
AggregateFunctions == {"sum"}
NonDeterministicFunctions == {"rand"}

IntOfWidth(w) ==
    CASE w = 1 -> "Int8" [] w = 2 -> "Int16" [] w = 4 -> "Int32" [] OTHER -> "Int64"

\* the result type of an addition of two numbers
PlusType(a, b) ==
    IF "Float64" \in {a, b} \/ "Float32" \in {a, b} THEN "Float64"
    ELSE IF a \in {"UInt8", "UInt16", "UInt32", "UInt64"}
            /\ b \in {"UInt8", "UInt16", "UInt32", "UInt64"}
         THEN (IF Max(numeric_byte_size(T(a)), numeric_byte_size(T(b))) = 1
               THEN "UInt16" ELSE "UInt64")
         ELSE "Int64"

Castable == NumberTypes \cup DecimalTypes \cup {"Boolean", "String", "Date", "Timestamp"}

FnType(name, ts) ==
    LET n == Len(ts)
        anyNull == \E i \in 1..n : ts[i].nullable
        pn(t) == IF anyNull THEN wrap_nullable(t) ELSE t
        b(i) == ts[i].base
    IN
    IF name \in {"plus", "div"}
    THEN (IF n = 2 /\ b(1) \in NumberTypes /\ b(2) \in NumberTypes
          THEN pn(T(PlusType(b(1), b(2)))) ELSE NoType)
    ELSE IF name = "substr"
    THEN (IF n = 3 /\ b(1) = "String" /\ b(2) \in IntTypes /\ b(3) \in IntTypes
          THEN pn(T("String")) ELSE NoType)
    ELSE IF name = "not"
    THEN (IF n = 1 /\ b(1) = "Boolean" THEN pn(T("Boolean")) ELSE NoType)
    ELSE IF name = "eq"
    THEN (IF n = 2 /\ (b(1) = b(2) \/ (b(1) \in NumberTypes /\ b(2) \in NumberTypes))
          THEN pn(T("Boolean")) ELSE NoType)
    ELSE IF name = "rand"
    THEN (IF n = 0 THEN T("Float64") ELSE NoType)
    ELSE IF name \in {"to_int8", "to_int16", "to_int32", "to_int64"}
    THEN (IF n = 1 /\ b(1) \in Castable
          THEN pn(T(CASE name = "to_int8" -> "Int8" [] name = "to_int16" -> "Int16"
                      [] name = "to_int32" -> "Int32" [] OTHER -> "Int64"))
          ELSE NoType)
    ELSE IF name = "to_float64"
    THEN (IF n = 1 /\ b(1) \in NumberTypes \cup DecimalTypes \cup {"String"}
          THEN pn(T("Float64")) ELSE NoType)
    ELSE IF name = "to_string"
    THEN (IF n = 1 /\ b(1) \in Castable THEN pn(T("String")) ELSE NoType)
    ELSE IF name = "hilbert_key"
    THEN (IF n = 1 /\ b(1) \in NumberTypes \cup {"String"}
          THEN pn(T("Binary")) ELSE NoType)
    ELSE IF name = "is_not_null"
    THEN (IF n = 1 THEN T("Boolean") ELSE NoType)
    ELSE IF name = "assume_not_null"
    THEN (IF n = 1 THEN remove_nullable(ts[1]) ELSE NoType)
    ELSE IF name = "if"
    THEN (IF n = 3 /\ b(1) = "Boolean" /\ b(2) = b(3)
          THEN [base |-> b(2), nullable |-> ts[2].nullable \/ ts[3].nullable]
          ELSE NoType)
    ELSE IF name = "array"
    THEN (IF n >= 1 /\ \A i \in 1..n : b(i) = b(1)
          THEN T("Array(" \o b(1) \o ")") ELSE NoType)
    ELSE IF name = "hilbert_index"
    THEN (IF n = 2 /\ b(1) = "Array(Binary)" /\ b(2) = "UInt64"
          THEN T("Binary") ELSE NoType)
    ELSE IF name = "tuple"
    THEN T("Tuple")
    ELSE IF name \in AggregateFunctions
    THEN (IF n = 1 /\ b(1) \in NumberTypes THEN wrap_nullable(T("Int64")) ELSE NoType)
    ELSE NoType

(***************************************************************************)
(* Executable expressions (Expr).                                          *)
(***************************************************************************)
ColumnRef(id, t) == [k |-> "ColumnRef", id |-> id, data_type |-> t]
Constant(scalar, t) == [k |-> "Constant", scalar |-> scalar, data_type |-> t]
FunctionCall(name, args, t) ==
    [k |-> "FunctionCall", name |-> name, args |-> args, data_type |-> t]
Cast(e, t) == [k |-> "Cast", expr |-> e, data_type |-> t]

\* check_function: type-checks a call of a registry function on typed arguments
typed_call(name, args, t) ==
    IF t = NoType
    THEN Err("SemanticError", "no function matches signature")
    ELSE Ok(FunctionCall(name, args, t))

check_function(name, args) ==
    typed_call(name, args, FnType(name, [i \in 1..Len(args) |-> args[i].data_type]))

\* check_cast: the identity on an expression of the target type, a cast otherwise
check_cast(e, t) ==
    IF e.data_type = t THEN Ok(e)
    ELSE IF e.data_type.base \in Castable \cup {"Null"} /\ t.base \in Castable
    THEN Ok(Cast(e, t))
    ELSE Err("SemanticError", "unable to cast")

(***************************************************************************)
(* The type checker: resolve(ast) against a scope of column bindings gives *)
(* a typed scalar expression (ScalarExpr) or a semantic error.             *)
(***************************************************************************)
BoundColumnRef(column) ==
    [k |-> "BoundColumnRef", column |-> column, data_type |-> column.data_type]
ConstantExpr(value, t) == [k |-> "ConstantExpr", value |-> value, data_type |-> t]
FunctionCallS(name, arguments, t) ==
    [k |-> "FunctionCall", func_name |-> name, arguments |-> arguments, data_type |-> t]
CastExpr(argument, t) == [k |-> "CastExpr", argument |-> argument, data_type |-> t]
AggregateFunction(name, args, t) ==
    [k |-> "AggregateFunction", func_name |-> name, args |-> args, data_type |-> t]

\* the bindings of a scope an identifier may name: visible ones for a plain
\* identifier, the binding of the nested path for a path access
Lookup(scope, ast) ==
    IF ast.k = "ColumnRef"
    THEN {i \in 1..Len(scope) : /\ scope[i].column_name = NormalizeIdent(ast.name)
                                /\ scope[i].visibility = "Visible"}
    ELSE {i \in 1..Len(scope) :
              scope[i].column_name = NormalizeIdent(ast.name) \o ":" \o ast.key}

\* the identifier of a scope that has exactly one binding for it
resolve_column(scope, found) ==
    IF Cardinality(found) = 1
    THEN Ok(BoundColumnRef(scope[CHOOSE i \in found : TRUE]))
    ELSE Err("SemanticError", "column doesn't exist")

\* the call of a function of return type t on resolved arguments
typed_scalar(name, arguments, t) ==
    IF t = NoType THEN Err("SemanticError", "no function matches signature")
    ELSE IF name \in AggregateFunctions
    THEN Ok(AggregateFunction(name, arguments, t))
    ELSE Ok(FunctionCallS(name, arguments, t))

\* the call of a function on the results of resolving its arguments
resolve_call(name, args) ==
    IF ~AllOk(args) THEN FirstFailure(args)
    ELSE typed_scalar(name, Vals(args),
                      FnType(name, [i \in 1..Len(args) |-> args[i].val.data_type]))

RECURSIVE resolve(_, _)
resolve(scope, ast) ==
    IF ast.k \in {"ColumnRef", "MapAccess"}
    THEN resolve_column(scope, Lookup(scope, ast))
    ELSE IF ast.k = "Literal"
    THEN Ok(ConstantExpr(ast.value, ast.data_type))
    ELSE IF ast.k = "Tuple"
    THEN resolve_call("tuple", [i \in 1..Len(ast.exprs) |-> resolve(scope, ast.exprs[i])])
    ELSE resolve_call(ast.name, [i \in 1..Len(ast.args) |-> resolve(scope, ast.args[i])])

\* ScalarExpr::used_columns: the positions of the columns a scalar refers to
RECURSIVE used_columns(_)
used_columns(s) ==
    IF s.k = "BoundColumnRef" THEN {s.column.index}
    ELSE IF s.k = "ConstantExpr" THEN {}
    ELSE IF s.k = "CastExpr" THEN used_columns(s.argument)
    ELSE LET as == IF s.k = "FunctionCall" THEN s.arguments ELSE s.args IN
         UNION {used_columns(as[i]) : i \in 1..Len(as)}

\* ScalarExpr::evaluable: free of aggregate (window, subquery) forms
RECURSIVE evaluable(_)
evaluable(s) ==
    IF s.k = "AggregateFunction" THEN FALSE
    ELSE IF s.k = "FunctionCall"
    THEN \A i \in 1..Len(s.arguments) : evaluable(s.arguments[i])
    ELSE IF s.k = "CastExpr" THEN evaluable(s.argument)
    ELSE TRUE

\* wrap_cast(scalar, target_type)
wrap_cast(s, t) == CastExpr(s, t)

\* ScalarExpr::as_expr: the executable expression, its column references
\* still carrying the bindings; an aggregate has none
RECURSIVE as_expr(_)
as_expr(s) ==
    IF s.k = "BoundColumnRef" THEN Ok(ColumnRef(s.column, s.data_type))
    ELSE IF s.k = "ConstantExpr" THEN Ok(Constant(s.value, s.data_type))
    ELSE IF s.k = "CastExpr"
    THEN LET a == as_expr(s.argument) IN
         IF IsOk(a) THEN Ok(Cast(a.val, s.data_type)) ELSE a
    ELSE IF s.k = "FunctionCall"
    THEN LET as == [i \in 1..Len(s.arguments) |-> as_expr(s.arguments[i])] IN
         IF AllOk(as) THEN Ok(FunctionCall(s.func_name, Vals(as), s.data_type))
         ELSE FirstFailure(as)
    ELSE Err("Internal", "not an executable expression")

\* expr.project_column_ref(|col| col.index)
RECURSIVE project_index(_)
project_index(e) ==
    IF e.k = "ColumnRef" THEN ColumnRef(e.id.index, e.data_type)
    ELSE IF e.k = "Constant" THEN e
    ELSE IF e.k = "Cast" THEN Cast(project_index(e.expr), e.data_type)
    ELSE FunctionCall(e.name, [i \in 1..Len(e.args) |-> project_index(e.args[i])],
                      e.data_type)

\* the ids of the column references of an expression
RECURSIVE column_refs(_)
column_refs(e) ==
    IF e.k = "ColumnRef" THEN {e.id}
    ELSE IF e.k = "Constant" THEN {}
    ELSE IF e.k = "Cast" THEN column_refs(e.expr)
    ELSE UNION {column_refs(e.args[i]) : i \in 1..Len(e.args)}

\* expr.project_column_ref(|index| schema.field(*index).name()); the caller
\* makes sure every index is one of fields
RECURSIVE project_name(_, _)
project_name(e, fields) ==
    IF e.k = "ColumnRef" THEN ColumnRef(fields[e.id + 1].name, e.data_type)
    ELSE IF e.k = "Constant" THEN e
    ELSE IF e.k = "Cast" THEN Cast(project_name(e.expr, fields), e.data_type)
    ELSE FunctionCall(e.name,
                      [i \in 1..Len(e.args) |-> project_name(e.args[i], fields)],
                      e.data_type)

\* Expr::is_deterministic: every function of the tree is deterministic
RECURSIVE is_deterministic(_)
is_deterministic(e) ==
    IF e.k = "FunctionCall"
    THEN /\ e.name \notin NonDeterministicFunctions
         /\ \A i \in 1..Len(e.args) : is_deterministic(e.args[i])
    ELSE IF e.k = "Cast" THEN is_deterministic(e.expr)
    ELSE TRUE

(***************************************************************************)
(* The constant evaluator: one row, the values of its columns in row.      *)
(* rnd is what a non-deterministic function returns in this evaluation.    *)
(***************************************************************************)
ParseNumber(str) ==
    CASE str = "2" -> Num(2)
      [] str = "300" -> Num(300)
      [] OTHER -> EvalError

InRange(base, n) ==
    CASE base = "Int8" -> n \in -128..127
      [] base = "UInt8" -> n \in 0..255
      [] base \in {"UInt16", "UInt32", "UInt64"} -> n >= 0
      [] OTHER -> TRUE

\* the value of a cast of scalar v to type t
cast_scalar(v, t) ==
    IF v.t = "EvalError" THEN EvalError
    ELSE IF v.t = "Null" THEN (IF t.nullable THEN Null ELSE EvalError)
    ELSE IF t.base \in NumberTypes \cup DecimalTypes \cup {"Date", "Timestamp"}
    THEN LET n == CASE v.t = "Number" -> v
                    [] v.t = "Boolean" -> Num(IF v.v THEN 1 ELSE 0)
                    [] v.t = "String" -> ParseNumber(v.v)
                    [] OTHER -> EvalError
         IN IF n.t = "Number" /\ InRange(t.base, n.v) THEN n ELSE EvalError
    ELSE IF t.base = "String"
    THEN CASE v.t = "Number" -> Str(ToString(v.v))
           [] v.t = "Boolean" -> Str(IF v.v THEN "true" ELSE "false")
           [] v.t = "String" -> v
           [] OTHER -> EvalError
    ELSE IF t.base = "Boolean"
    THEN CASE v.t = "Number" -> Bool(v.v # 0)
           [] v.t = "Boolean" -> v
           [] OTHER -> EvalError
    ELSE EvalError

\* the per-value key transform: a fixed-width binary key of a non-null value
hilbert_key_value(v) ==
    CASE v.t = "Number" -> Binary(<<v.v % 256>>)
      [] v.t = "String" -> Binary(<<Len(v.v)>>)
      [] OTHER -> EvalError

RECURSIVE Eval(_, _, _)
Eval(e, row, rnd) ==
    IF e.k = "Constant" THEN e.scalar
    ELSE IF e.k = "ColumnRef"
    THEN (IF e.id + 1 \in DOMAIN row THEN row[e.id + 1] ELSE EvalError)
    ELSE IF e.k = "Cast" THEN cast_scalar(Eval(e.expr, row, rnd), e.data_type)
    ELSE LET n == Len(e.args)
             a(i) == Eval(e.args[i], row, rnd)
             anyErr == \E i \in 1..n : a(i).t = "EvalError"
             anyNull == \E i \in 1..n : a(i).t = "Null"
         IN
         IF e.name = "if"
         THEN (IF a(1).t = "EvalError" THEN EvalError
               ELSE IF a(1).t = "Boolean" /\ a(1).v THEN a(2) ELSE a(3))
         ELSE IF anyErr THEN EvalError
         ELSE IF e.name = "is_not_null" THEN Bool(a(1).t # "Null")
         ELSE IF e.name = "assume_not_null"
         THEN (IF a(1).t = "Null" THEN default_value(e.data_type) ELSE a(1))
         ELSE IF e.name = "rand" THEN Num(rnd)
         ELSE IF anyNull THEN Null
         ELSE IF e.name = "plus" THEN Num(a(1).v + a(2).v)
         ELSE IF e.name = "div"
         THEN (IF a(2).v = 0 THEN EvalError ELSE Num(a(1).v \div a(2).v))
         ELSE IF e.name = "eq" THEN Bool(a(1).v = a(2).v)
         ELSE IF e.name = "not" THEN Bool(~a(1).v)
         ELSE IF e.name \in {"to_int8", "to_int16", "to_int32", "to_int64",
                             "to_float64", "to_string"}
         THEN cast_scalar(a(1), e.data_type)
         ELSE IF e.name = "hilbert_key" THEN hilbert_key_value(a(1))
         ELSE EvalError

\* ConstantFolder::fold: an expression without column references whose
\* evaluation succeeds becomes its value; any other is left as it is
folded(e, v) == IF v.t = "EvalError" THEN e ELSE Constant(v, e.data_type)

fold(e) ==
    IF e.k = "Constant" \/ column_refs(e) # {} \/ ~is_deterministic(e) THEN e
    ELSE folded(e, Eval(e, <<>>, 0))

(***************************************************************************)
(* Rendering as SQL text, a sequence of tokens.                            *)
(***************************************************************************)
ScalarText(v) ==
    CASE v.t = "Number" -> ToString(v.v)
      [] v.t = "String" -> "'" \o v.v \o "'"
      [] v.t = "Boolean" -> (IF v.v THEN "true" ELSE "false")
      [] OTHER -> "NULL"

RECURSIVE JoinTokens(_, _)
JoinTokens(parts, sep) ==
    IF parts = <<>> THEN <<>>
    ELSE IF Len(parts) = 1 THEN parts[1]
    ELSE parts[1] \o <<sep>> \o JoinTokens(Tail(parts), sep)

\* format!("{:#}", ast)
RECURSIVE Display(_)
Display(ast) ==
    IF ast.k = "ColumnRef" THEN <<ast.name>>
    ELSE IF ast.k = "MapAccess" THEN <<ast.name, ":", ast.key>>
    ELSE IF ast.k = "Literal" THEN <<ScalarText(ast.value)>>
    ELSE IF ast.k = "Tuple"
    THEN <<"(">> \o JoinTokens([i \in 1..Len(ast.exprs) |-> Display(ast.exprs[i])], ",")
         \o <<")">>
    ELSE <<ast.name, "(">>
         \o JoinTokens([i \in 1..Len(ast.args) |-> Display(ast.args[i])], ",")
         \o <<")">>

\* ast.drive_mut(&mut IdentifierNormalizer)
RECURSIVE normalize(_)
normalize(ast) ==
    IF ast.k = "ColumnRef" THEN Ident(NormalizeIdent(ast.name))
    ELSE IF ast.k = "MapAccess" THEN MapAccess(NormalizeIdent(ast.name), ast.key)
    ELSE IF ast.k = "Literal" THEN ast
    ELSE IF ast.k = "Tuple"
    THEN TupleAst([i \in 1..Len(ast.exprs) |-> normalize(ast.exprs[i])])
    ELSE Call(ast.name, [i \in 1..Len(ast.args) |-> normalize(ast.args[i])])

\* Expr::sql_display
RECURSIVE sql_display(_)
sql_display(e) ==
    IF e.k = "Constant" THEN <<ScalarText(e.scalar)>>
    ELSE IF e.k = "ColumnRef" THEN <<"#", ToString(e.id)>>
    ELSE IF e.k = "Cast"
    THEN <<"CAST", "(">> \o sql_display(e.expr) \o <<"AS", e.data_type.base, ")">>
    ELSE <<e.name, "(">>
         \o JoinTokens([i \in 1..Len(e.args) |-> sql_display(e.args[i])], ",")
         \o <<")">>

(***************************************************************************)
(* The entry points.  A text is what tokenize_sql and                      *)
(* parse_comma_separated_exprs make of it: a syntax error, or the list of  *)
(* its top-level expressions.                                              *)
(***************************************************************************)
Text(exprs) == [parse_ok |-> TRUE, exprs |-> exprs]
BadText == [parse_ok |-> FALSE, exprs |-> <<>>]

parse_comma_separated_exprs(text) ==
    IF text.parse_ok THEN Ok(text.exprs) ELSE Err("SyntaxException", "unable to parse")

\* collect::<Result<_>>(): all the values, or the first error
Collect(rs) == IF AllOk(rs) THEN Ok(Vals(rs)) ELSE FirstFailure(rs)

\* scalar.as_expr()?.project_column_ref(|col| col.index)
project(e) == IF ~IsOk(e) THEN e ELSE Ok(project_index(e.val))

\* what follows type_checker.resolve(ast)? for its result r
lower(r) == IF ~IsOk(r) THEN r ELSE project(as_expr(r.val))

\* type_checker.resolve(ast)?, scalar.as_expr()?, project_column_ref(|col| col.index)
resolve_expr(scope, ast) == lower(resolve(scope, ast))

\* parse_exprs from the parsed expressions on
parse_exprs_asts(scope, asts) ==
    IF ~IsOk(asts) THEN asts
    ELSE Collect([i \in 1..Len(asts.val) |-> resolve_expr(scope, asts.val[i])])

\* parse_exprs from the bound table on
parse_exprs_bound(bound, text) ==
    IF ~IsOk(bound) THEN bound
    ELSE parse_exprs_asts(bound.val, parse_comma_separated_exprs(text))

parse_exprs(table, text) == parse_exprs_bound(bind_table(table), text)

\* exprs.len() >= 1: a filter made of the first of several expressions
single_expr_or_more(exprs) == Len(exprs) >= 1

\* exprs.len() == 1
single_expr(exprs) == Len(exprs) = 1

\* Ok(Filters { filter, inverted_filter }) after check_function(...)?
filters(filter, inverted_filter) ==
    IF ~IsOk(inverted_filter) THEN inverted_filter
    ELSE Ok([filter |-> filter, inverted_filter |-> inverted_filter.val])

\* parse_to_filters from the expressions projected by name on
filters_of(exprs) ==
    IF single_expr(exprs)
    THEN filters(exprs[1], check_function("not", <<exprs[1]>>))
    ELSE Err("BadDataValueType", <<"Expected single expr, but got", Len(exprs)>>)

\* parse_to_filters from the result of parse_exprs on: schema.field(index)
\* of an index that is not one of the schema aborts the call
filters_of_parsed(fields, parsed) ==
    IF ~IsOk(parsed) THEN parsed
    ELSE IF \E i \in 1..Len(parsed.val) :
                \E id \in column_refs(parsed.val[i]) : id + 1 \notin 1..Len(fields)
    THEN Panic("index out of bounds")
    ELSE filters_of([i \in 1..Len(parsed.val) |-> project_name(parsed.val[i], fields)])

parse_to_filters(table, text) == filters_of_parsed(schema(table), parse_exprs(table, text))

\* the cast parse_default_expr_to_string puts around a default expression
default_cast(scalar, data_type, schema_data_type) ==
    IF data_type # schema_data_type THEN wrap_cast(scalar, schema_data_type) ELSE scalar

\* parse_default_expr_to_string from the lowered expression on
default_text(e) ==
    IF ~IsOk(e) THEN e
    ELSE IF is_deterministic(e.val)
    THEN Ok([text |-> sql_display(fold(e.val)), is_deterministic |-> TRUE])
    ELSE Ok([text |-> sql_display(e.val), is_deterministic |-> FALSE])

\* parse_default_expr_to_string from the resolved scalar on
default_of_scalar(fld, r) ==
    IF ~IsOk(r) THEN r
    ELSE IF ~evaluable(r.val)
    THEN Err("SemanticError", "default value expression is invalid")
    ELSE default_text(as_expr(default_cast(r.val, r.val.data_type, fld.data_type)))

parse_default_expr_to_string(fld, ast) == default_of_scalar(fld, resolve(<<>>, ast))

\* a position that restarts at 0 for the lambda parameters
lambda_index_from_zero(column_len, idx) == idx

\* the position parse_lambda_expr gives its idx-th parameter (0-based) after
\* column_len existing bindings
lambda_index(column_len, idx) == column_len + idx

\* the loop of parse_lambda_expr: the bindings of the parameters are appended
lambda_scope(bind_context, columns) ==
    bind_context \o
    [i \in 1..Len(columns) |->
        ColumnBinding(columns[i].name, lambda_index(Len(bind_context), i - 1),
                      columns[i].data_type, "Visible")]

\* parse_lambda_expr: the expression resolved in the scope with the parameters
parse_lambda_expr(bind_context, columns, ast) ==
    resolve(lambda_scope(bind_context, columns), ast)

\* the scope parse_computed_expr_to_string binds: the fields of the schema
schema_scope(fields) ==
    [i \in 1..Len(fields) |->
        ColumnBinding(fields[i].name, i - 1, fields[i].data_type, "Visible")]

\* a type check that ignores nullability
computed_type_ok_modulo_null(data_type, declared_type) ==
    remove_nullable(data_type) = remove_nullable(declared_type)

\* whether parse_computed_expr_to_string takes an expression of type data_type
\* for a column declared with declared_type
computed_type_ok(data_type, declared_type) == data_type = declared_type

\* parse_computed_expr_to_string from the lowered expression on
computed_text(ast, e) ==
    IF ~IsOk(e) THEN e
    ELSE IF ~is_deterministic(e.val)
    THEN Err("SemanticError", "computed column expression is not deterministic")
    ELSE Ok(Display(normalize(ast)))

\* parse_computed_expr_to_string from the resolved scalar on
computed_of_scalar(fld, ast, r) ==
    IF ~IsOk(r) THEN r
    ELSE IF ~evaluable(r.val)
    THEN Err("SemanticError", "computed column expression is invalid")
    ELSE IF ~computed_type_ok(r.val.data_type, fld.data_type)
    THEN Err("SemanticError", "expected computed column expression have type")
    ELSE computed_text(ast, as_expr(r.val))

parse_computed_expr_to_string(fields, fld, ast) ==
    computed_of_scalar(fld, ast, resolve(schema_scope(fields), ast))

(***************************************************************************)
(* Clustering keys.                                                        *)
(***************************************************************************)
\* "unwrap tuple": a single top-level tuple stands for its elements
unwrap_tuple(ast_exprs) ==
    IF Len(ast_exprs) = 1 /\ ast_exprs[1].k = "Tuple" THEN ast_exprs[1].exprs
    ELSE ast_exprs

\* what parse_cluster_keys and parse_hilbert_cluster_key do with a text of
\* other than one top-level expression: unreachable!(...)
cluster_key_count_mismatch(ast_exprs) ==
    Panic("invalid cluster key ast expression")

\* a wrapping decision that does not look for a substr call
should_wrapper_any_string(expr) == remove_nullable(expr.data_type) = T("String")

\* should_wrapper: a string-typed key that is not already a substr call
should_wrapper(expr) ==
    IF remove_nullable(expr.data_type) = T("String")
    THEN (IF expr.k = "FunctionCall" THEN expr.name # "substr" ELSE TRUE)
    ELSE FALSE

\* the linear-mode step on one lowered key
linear_key(expr) ==
    IF should_wrapper(expr)
    THEN check_function("substr",
                        <<expr, Constant(Num(SubstrFrom), T("Int64")),
                          Constant(Num(SubstrLen), T("UInt64"))>>)
    ELSE Ok(expr)

\* one turn of the loop of parse_cluster_keys, from the lowered key on
linear_lowered(e) == IF ~IsOk(e) THEN e ELSE linear_key(e.val)

\* one turn of the loop of parse_cluster_keys
linear_resolve(scope, ast) == linear_lowered(resolve_expr(scope, ast))

\* parse_cluster_keys from the parsed expressions on
cluster_keys_asts(scope, asts) ==
    IF ~IsOk(asts) THEN asts
    ELSE IF Len(asts.val) # 1 THEN cluster_key_count_mismatch(asts.val)
    ELSE Collect([i \in 1..Len(unwrap_tuple(asts.val)) |->
                     linear_resolve(scope, unwrap_tuple(asts.val)[i])])

\* parse_cluster_keys from the bound table on
cluster_keys_bound(bound, text) ==
    IF ~IsOk(bound) THEN bound
    ELSE cluster_keys_asts(bound.val, parse_comma_separated_exprs(text))

parse_cluster_keys(table, text) == cluster_keys_bound(bind_table(table), text)

hilbert_byte_size(t) ==
    IF t.base \in NumberTypes \cup DecimalTypes \cup {"Date", "Timestamp"}
    THEN Ok(numeric_byte_size(remove_nullable(t)))
    ELSE IF t.base = "Boolean" THEN Ok(1)
    ELSE IF t.base = "String" THEN Ok(HilbertStringWidth)
    ELSE Err("Internal", "unsupported data type for hilbert")

\* a dimension check that also takes six dimensions
hilbert_dims_upto_six(expr_len) == expr_len \in HilbertMinDims..(HilbertMaxDims + 1)

\* whether Hilbert clustering takes expr_len dimensions
hilbert_dims_ok(expr_len) == expr_len \in HilbertMinDims..HilbertMaxDims

\* byte_sizes.push(byte_size); exprs.push(expr)
hilbert_sized(expr, size) ==
    IF ~IsOk(size) THEN size ELSE Ok([expr |-> expr, byte_size |-> size.val])

\* one turn of the first loop, from the lowered dimension on
hilbert_lowered(e) ==
    IF ~IsOk(e) THEN e ELSE hilbert_sized(e.val, hilbert_byte_size(e.val.data_type))

\* one turn of the first loop: the lowered dimension and its byte size
hilbert_dim(scope, ast) == hilbert_lowered(resolve_expr(scope, ast))

RECURSIVE MaxByteSize(_)
MaxByteSize(dims) ==
    IF dims = <<>> THEN 0 ELSE Max(Head(dims).byte_size, MaxByteSize(Tail(dims)))

\* the widest byte size, without the cap
hilbert_max_size_uncapped(dims) == MaxByteSize(dims)

\* let max_size = max_size.min(8)
hilbert_max_size(dims) == Min(MaxByteSize(dims), HilbertMaxWidth)

common_cast(max_size) ==
    CASE max_size = 1 -> "to_int8"
      [] max_size = 2 -> "to_int16"
      [] max_size = 4 -> "to_int32"
      [] max_size = 8 -> "to_int64"
      [] OTHER -> "unreachable"

\* a sentinel of the widest key, whatever the common width
max_val_full_width(max_size) ==
    Constant(Binary([i \in 1..HilbertMaxWidth |-> SentinelByte]), T("Binary"))

\* max_val: the binary constant vec![0xFF; max_size]
max_val(max_size) ==
    Constant(Binary([i \in 1..max_size |-> SentinelByte]), T("Binary"))

\* a cast decided on the type as declared, nullable wrapper included
cast_str_of_declared_type(expr, byte_size, max_size) ==
    IF expr.data_type.nullable THEN ""
    ELSE IF expr.data_type.base \in {"Date", "Timestamp", "Boolean"}
    THEN common_cast(max_size)
    ELSE IF expr.data_type.base \in DecimalTypes THEN "to_float64"
    ELSE IF expr.data_type.base \in NumberTypes /\ max_size > byte_size
    THEN (IF expr.data_type.base = "Float32" THEN "to_float64" ELSE common_cast(max_size))
    ELSE ""

\* cast_str: the cast of one dimension, "" for none
cast_str(expr, byte_size, max_size) ==
    IF remove_nullable(expr.data_type).base \in {"Date", "Timestamp", "Boolean"}
    THEN common_cast(max_size)
    ELSE IF remove_nullable(expr.data_type).base \in DecimalTypes THEN "to_float64"
    ELSE IF remove_nullable(expr.data_type).base \in NumberTypes /\ max_size > byte_size
    THEN (IF remove_nullable(expr.data_type).base = "Float32"
          THEN "to_float64" ELSE common_cast(max_size))
    ELSE ""

\* the if(...) call over the two checked calls and max_val
null_replace_if(is_not_null_expr, assume_not_null_expr, max_size) ==
    IF ~IsOk(is_not_null_expr) THEN is_not_null_expr
    ELSE IF ~IsOk(assume_not_null_expr) THEN assume_not_null_expr
    ELSE check_function("if", <<is_not_null_expr.val, assume_not_null_expr.val,
                                max_val(max_size)>>)

\* the replacement of a nullable key: if(is_not_null(k), assume_not_null(k), max_val)
null_replace(key, max_size) ==
    null_replace_if(check_function("is_not_null", <<key>>),
                    check_function("assume_not_null", <<key>>), max_size)

\* the cast of a dimension, if it has one
hilbert_cast(expr, cast) ==
    IF cast # "" THEN check_function(cast, <<expr>>) ELSE Ok(expr)

\* the hilbert_key call over the cast dimension
hilbert_key_call(casted) ==
    IF ~IsOk(casted) THEN casted ELSE check_function("hilbert_key", <<casted.val>>)

\* the null replacement of a key of nullable type
hilbert_not_null(key, max_size) ==
    IF ~IsOk(key) THEN key
    ELSE IF is_nullable(key.val.data_type) THEN null_replace(key.val, max_size)
    ELSE key

\* one turn of the second loop: cast, hilbert_key, null replacement
hilbert_dim_key(dim, max_size) ==
    hilbert_not_null(
        hilbert_key_call(hilbert_cast(dim.expr, cast_str(dim.expr, dim.byte_size, max_size))),
        max_size)

\* Ok(vec![result])
hilbert_result(result) == IF ~IsOk(result) THEN result ELSE Ok(<<result.val>>)

\* the hilbert_index call over the checked array call
hilbert_index_of(array, max_size) ==
    IF ~IsOk(array) THEN array
    ELSE hilbert_result(check_function("hilbert_index",
                            <<array.val, Constant(Num(max_size), T("UInt64"))>>))

\* the array and hilbert_index calls over the keys of all dimensions
hilbert_index(exprs, max_size) == hilbert_index_of(check_function("array", exprs), max_size)

\* parse_hilbert_cluster_key from the keys of the second loop on
hilbert_of_keys(keys, max_size) ==
    IF ~AllOk(keys) THEN FirstFailure(keys) ELSE hilbert_index(Vals(keys), max_size)

\* parse_hilbert_cluster_key from max_size on
hilbert_of_sized(dims, max_size) ==
    IF common_cast(max_size) = "unreachable" THEN Panic("unreachable")
    ELSE hilbert_of_keys([i \in 1..Len(dims) |-> hilbert_dim_key(dims[i], max_size)],
                         max_size)

\* parse_hilbert_cluster_key from the dimensions of the first loop on
hilbert_of_dims(dims) ==
    IF ~AllOk(dims) THEN FirstFailure(dims)
    ELSE hilbert_of_sized(Vals(dims), hilbert_max_size(Vals(dims)))

\* parse_hilbert_cluster_key from the unwrapped expressions on
hilbert_of_asts(scope, ast_exprs) ==
    IF ~hilbert_dims_ok(Len(ast_exprs))
    THEN Err("InvalidClusterKeys",
             "Hilbert clustering requires the dimension to be between 2 and 5")
    ELSE hilbert_of_dims([i \in 1..Len(ast_exprs) |-> hilbert_dim(scope, ast_exprs[i])])

\* parse_hilbert_cluster_key from the parsed expressions on
hilbert_asts(scope, asts) ==
    IF ~IsOk(asts) THEN asts
    ELSE IF Len(asts.val) # 1 THEN cluster_key_count_mismatch(asts.val)
    ELSE hilbert_of_asts(scope, unwrap_tuple(asts.val))

\* parse_hilbert_cluster_key from the bound table on
hilbert_bound(bound, text) ==
    IF ~IsOk(bound) THEN bound
    ELSE hilbert_asts(bound.val, parse_comma_separated_exprs(text))

parse_hilbert_cluster_key(table, text) == hilbert_bound(bind_table(table), text)

\* the nullable-stripped types analyze_cluster_keys takes
cluster_type_ok(data_type) ==
    data_type.base \in NumberTypes \cup DecimalTypes
                       \cup {"String", "Timestamp", "Date", "Boolean"}

\* a validity check that takes a key over several columns
cluster_scalar_ok_some_column(scalar) ==
    ~(Cardinality(used_columns(scalar)) < 1 \/ ~evaluable(scalar))

\* whether analyze_cluster_keys takes the resolved scalar of a key
cluster_scalar_ok(scalar) ==
    ~(Cardinality(used_columns(scalar)) # 1 \/ ~evaluable(scalar))

\* one turn of the loop of analyze_cluster_keys, from the lowered key on
analyze_expr(ast, expr) ==
    IF ~is_deterministic(expr)
    THEN Err("InvalidClusterKeys", "Cluster by expression is not deterministic")
    ELSE IF ~cluster_type_ok(remove_nullable(expr.data_type))
    THEN Err("InvalidClusterKeys", "Unsupported data type for cluster by expression")
    ELSE Ok([expr |-> expr, text |-> Display(normalize(ast))])

\* scalar.as_expr()?.project_column_ref(|col| col.index), then the checks
analyze_lowered(ast, e) ==
    IF ~IsOk(e) THEN e ELSE analyze_expr(ast, project_index(e.val))

\* one turn of the loop of analyze_cluster_keys, from the resolved scalar on
analyze_scalar(ast, r) ==
    IF ~IsOk(r) THEN r
    ELSE IF ~cluster_scalar_ok(r.val)
    THEN Err("InvalidClusterKeys", "Cluster by expression is invalid")
    ELSE analyze_lowered(ast, as_expr(r.val))

\* one turn of the loop of analyze_cluster_keys: the lowered key and its text
analyze_key(scope, ast) == analyze_scalar(ast, resolve(scope, ast))

\* format!("({})", cluster_keys.join(", "))
cluster_by_str(cluster_keys) == <<"(">> \o JoinTokens(cluster_keys, ",") \o <<")">>

\* Ok((cluster_by_str, exprs)) after the loop
analyzed(keys) ==
    IF ~AllOk(keys) THEN FirstFailure(keys)
    ELSE Ok([cluster_by_str |-> cluster_by_str([i \in 1..Len(keys) |-> keys[i].val.text]),
             exprs |-> [i \in 1..Len(keys) |-> keys[i].val.expr]])

\* analyze_cluster_keys from the bound table on
analyze_bound(ast_exprs, bound) ==
    IF ~IsOk(bound) THEN bound
    ELSE analyzed([i \in 1..Len(ast_exprs) |-> analyze_key(bound.val, ast_exprs[i])])

\* analyze_cluster_keys from the parsed expressions on
analyze_asts(table, asts) ==
    IF ~IsOk(asts) THEN asts
    ELSE analyze_bound(unwrap_tuple(asts.val), bind_table(table))

analyze_cluster_keys(table, text) == analyze_asts(table, parse_comma_separated_exprs(text))

(***************************************************************************)
(* Default values.                                                         *)
(***************************************************************************)
\* DummyTable::default(): a table without fields
DummyTable == [name |-> "", fields |-> <<>>, extra |-> <<>>, inner_first |-> FALSE]

\* a table with one real column
OneColumnTable ==
    [name |-> "", fields |-> <<Field("a", T("Int32"))>>, extra |-> <<>>, inner_first |-> FALSE]

\* the table field_default_value compiles a default expression against
default_value_table == DummyTable

\* the value of evaluator.run(&expr)?
default_of_result(result) ==
    IF result.t = "EvalError" THEN Err("EvaluationError", "evaluation failed")
    ELSE Ok(result)

\* field_default_value from the cast expression on
default_of_expr(expr, rnd) ==
    IF ~IsOk(expr) THEN expr ELSE default_of_result(Eval(expr.val, <<>>, rnd))

\* field_default_value from the result of parse_exprs on
default_of_exprs(fld, exprs, rnd) ==
    IF ~IsOk(exprs) THEN exprs
    ELSE IF Len(exprs.val) # 1
    THEN Err("BadDataValueType", "Invalid default value for column")
    ELSE default_of_expr(check_cast(exprs.val[1], fld.data_type), rnd)

\* a default value that ignores the default expression
type_default_value(fld, default_expr, rnd) == Ok(default_value(fld.data_type))

\* field_default_value of a field whose default expression, if it has one,
\* is default_expr
field_default_value(fld, default_expr, rnd) ==
    IF fld.has_default
    THEN default_of_exprs(fld, parse_exprs(default_value_table, default_expr), rnd)
    ELSE Ok(default_value(fld.data_type))

(***************************************************************************)
(* The arguments the calls are made with.                                  *)
(***************************************************************************)
Table(n, fields) == [name |-> n, fields |-> fields, extra |-> <<>>, inner_first |-> FALSE]

\* one column of every kind of type
WideTable ==
    Table("wide",
          <<Field("i8", T("Int8")), Field("i16", T("Int16")), Field("i32", T("Int32")),
            Field("i64", T("Int64")), Field("u8", T("UInt8")), Field("f32", T("Float32")),
            Field("f64", T("Float64")), Field("dt", T("Date")), Field("ts", T("Timestamp")),
            Field("b", T("Boolean")), Field("dec", T("Decimal128")), Field("s", T("String")),
            Field("ni32", wrap_nullable(T("Int32"))), Field("ns", wrap_nullable(T("String"))),
            Field("nb", wrap_nullable(T("Boolean"))), Field("ndt", wrap_nullable(T("Date"))),
            Field("v", T("Variant")),
            TupleField("t", <<Field("x", T("Int32")), Field("y", T("String"))>>)>>)

SmallTable ==
    Table("small", <<Field("a", T("Int32")), Field("s", T("String")), Field("b", T("Boolean"))>>)

\* a tuple column first: its inner columns are registered after the last
\* field, or between the two fields
NestedTable ==
    Table("nested",
          <<TupleField("t", <<Field("x", T("Int32")), Field("y", T("Boolean"))>>),
            Field("a", T("Int32"))>>)
NestedTableInnerFirst == [NestedTable EXCEPT !.inner_first = TRUE]

One == Lit(T("UInt8"), Num(1))

\* the key expressions drawn over the wide table
WideAtoms ==
    [i \in 1..Len(WideTable.fields) |-> Ident(WideTable.fields[i].name)]
    \o <<Call("substr", <<Ident("s"), One, Lit(T("UInt8"), Num(3))>>),
         Call("substr", <<Ident("ns"), One, Lit(T("UInt8"), Num(8))>>),
         Call("plus", <<Ident("i32"), Ident("i64")>>),
         Call("plus", <<Ident("i32"), One>>),
         Call("to_string", <<Ident("i32")>>),
         Call("plus", <<Ident("f64"), Call("rand", <<>>)>>),
         Call("sum", <<Ident("i32")>>),
         Call("eq", <<Ident("i16"), One>>),
         MapAccess("t", "x"),
         One,
         Ident("zz"),
         Ident("S")>>

\* the tuple of n keys that starts at atom start and moves on by step
KeyTuple(atoms, n, start, step) ==
    [i \in 1..n |-> atoms[((start - 1 + (i - 1) * step) % Len(atoms)) + 1]]

WideTexts ==
    {Text(<<WideAtoms[i]>>) : i \in 1..Len(WideAtoms)}
    \cup {Text(<<TupleAst(<<WideAtoms[i], WideAtoms[j]>>)>>) :
              i \in 1..Len(WideAtoms), j \in 1..Len(WideAtoms)}
    \cup {Text(<<TupleAst(KeyTuple(WideAtoms, n, start, step))>>) :
              n \in 3..MaxDims, start \in 1..Len(WideAtoms), step \in {0, 1}}

\* the expressions drawn over the small and the nested table
SmallAtoms ==
    {Ident("a"), Ident("A"), Ident("b"), Ident("s"),
     Call("eq", <<Ident("a"), One>>), MapAccess("t", "x"), MapAccess("t", "y")}

RECURSIVE SeqsUpTo(_, _)
SeqsUpTo(S, n) ==
    IF n = 0 THEN {<<>>}
    ELSE LET shorter == SeqsUpTo(S, n - 1) IN
         shorter \cup {Append(q, x) : q \in {r \in shorter : Len(r) = n - 1}, x \in S}

SmallTexts ==
    {Text(q) : q \in SeqsUpTo(SmallAtoms, MaxTop) \ {<<>>}}
    \cup {Text(<<TupleAst(<<x, y>>)>>) : x \in SmallAtoms, y \in SmallAtoms}
    \cup {BadText}

\* the default and computed-column expressions
DefaultAtoms ==
    {One, Lit(T("UInt16"), Num(300)), Lit(T("String"), Str("abc")), Lit(T("String"), Str("2")),
     Lit(T("Boolean"), Bool(TRUE)), Lit(wrap_nullable(T("Null")), Null),
     Call("plus", <<One, One>>), Call("div", <<One, Lit(T("UInt8"), Num(0))>>),
     Call("rand", <<>>), Call("sum", <<One>>), Call("to_string", <<One>>),
     Ident("a"), Ident("s"), Ident("b"), Ident("zz"),
     Call("plus", <<Ident("a"), One>>), Call("plus", <<Ident("a"), Call("rand", <<>>)>>),
     Call("eq", <<Ident("a"), One>>)}

DefaultTexts == {Text(<<x>>) : x \in DefaultAtoms} \cup {Text(<<One, One>>), BadText}

TableField(n, t, has_default) == [name |-> n, data_type |-> t, has_default |-> has_default]

DeclaredTypes ==
    {T("Int32"), T("Int8"), T("Int64"), T("UInt8"), T("String"), T("Boolean"),
     wrap_nullable(T("Int32"))}

Fields == {TableField("c", t, d) : t \in DeclaredTypes, d \in BOOLEAN}

Inputs ==
    {[table_meta |-> WideTable, sql |-> x, field |-> TableField("c", T("Int32"), TRUE)] :
        x \in WideTexts}
    \cup {[table_meta |-> t, sql |-> x, field |-> TableField("c", T("Boolean"), TRUE)] :
        t \in {SmallTable, NestedTable, NestedTableInnerFirst}, x \in SmallTexts}
    \cup {[table_meta |-> SmallTable, sql |-> x, field |-> f] :
        x \in DefaultTexts, f \in Fields}

\* column entries of other kinds than base-table columns that the metadata
\* may hold for a table
ExtraColumns ==
    {<<>>,
     <<[kind |-> "InternalColumn", column_name |-> "_row_id", data_type |-> T("UInt64"),
        path_indices |-> <<>>]>>}

\* the parameter lists of a lambda: name and type of each parameter
LambdaParam(n, t) == [name |-> n, data_type |-> t]
LambdaColumns ==
    {<<>>, <<LambdaParam("zz", T("Int32"))>>,
     <<LambdaParam("x", T("String")), LambdaParam("zz", T("Int32"))>>}

\* what rand() may return in one evaluation
RandValues == {0, 1}

(***************************************************************************)
(* The parquet scan source (storages/parquet/src/parquet_rs/source.rs): a  *)
(* processor the pipeline executor drives through event, process and       *)
(* async_process.  source holds the fields of ParquetSource, output the    *)
(* output port, ctx the partitions the context has still to hand out,      *)
(* scheduled what the executor is to do next with the processor (the last  *)
(* event it returned), history the blocks produced and pushed so far.      *)
(***************************************************************************)
None == <<>>
Some(x) == <<x>>
Unit == Ok(<<>>)

\* a data block, by DataBlock::num_rows and DataBlock::memory_size
DataBlock(num_rows, memory_size) == [num_rows |-> num_rows, memory_size |-> memory_size]

RECURSIVE SumRows(_)
SumRows(blocks) ==
    IF blocks = <<>> THEN 0 ELSE Head(blocks).num_rows + SumRows(Tail(blocks))
RECURSIVE SumBytes(_)
SumBytes(blocks) ==
    IF blocks = <<>> THEN 0 ELSE Head(blocks).memory_size + SumBytes(Tail(blocks))

\* DataBlock::concat(&blocks)
concat(blocks) == DataBlock(SumRows(blocks), SumBytes(blocks))

\* a ParquetRecordBatchReader: the blocks it has still to yield, and whether
\* the read after the last of them fails
Reader(blocks, fails) == [blocks |-> blocks, fails |-> fails]
NoReader == Reader(<<>>, FALSE)

\* enum State
StateInit == [k |-> "Init", reader |-> NoReader, buffers |-> <<>>]
ReadRowGroup(reader) == [k |-> "ReadRowGroup", reader |-> reader, buffers |-> <<>>]
ReadFiles(buffers) == [k |-> "ReadFiles", reader |-> NoReader, buffers |-> buffers]

\* ParquetSource::create
NewSource(is_copy) ==
    [state |-> StateInit, generated_data |-> None, is_finished |-> FALSE, is_copy |-> is_copy]

\* the output port: whether the consumer asked for data, the block it holds,
\* whether it is finished
NewPort == [need_data |-> FALSE, data |-> None, finished |-> FALSE]
can_push(out) == ~out.finished /\ out.need_data /\ out.data = None
push_data(out, block) == [out EXCEPT !.data = Some(block), !.need_data = FALSE]
finish(out) == [out EXCEPT !.finished = TRUE]

\* scan_progress.incr(&progress_values)
NoProgress == [rows |-> 0, bytes |-> 0]
incr(progress, block) ==
    [rows |-> progress.rows + block.num_rows, bytes |-> progress.bytes + block.memory_size]

\* what event does, and the Event it returns
EventOutcome(src, out, progress, pushed, event) ==
    [source |-> src, output |-> out, scan_progress |-> progress, pushed |-> pushed,
     event |-> event]

\* an event that keeps the block it has pushed
not_taken(src) == src

\* self.generated_data.take()
taken(src) == [src EXCEPT !.generated_data = None]

\* an event that asks for process in every state
event_sync_in_every_state(state) == "Sync"

\* None => match &self.state
event_of_state(state) == IF state.k = "Init" THEN "Async" ELSE "Sync"

\* Some(data_block) => progress, push_data, NeedConsume
event_push(src, out, progress, data_block) ==
    EventOutcome(taken(src), push_data(out, data_block), incr(progress, data_block),
                 <<data_block>>, "NeedConsume")

\* match self.generated_data.take()
event_take(src, out, progress) ==
    IF src.generated_data = None
    THEN EventOutcome(src, out, progress, <<>>, event_of_state(src.state))
    ELSE event_push(src, out, progress, src.generated_data[1])

event(src, out, progress) ==
    IF src.is_finished THEN EventOutcome(src, finish(out), progress, <<>>, "Finished")
    ELSE IF out.finished THEN EventOutcome(src, out, progress, <<>>, "Finished")
    ELSE IF ~can_push(out) THEN EventOutcome(src, out, progress, <<>>, "NeedConsume")
    ELSE event_take(src, out, progress)

\* what process or async_process does: the source after it, its result, the
\* chunks it adds to the copy status and the block it has generated
Outcome(src, result, chunks, block) ==
    [source |-> src, result |-> result, chunks |-> chunks, block |-> block]

\* std::mem::replace(&mut self.state, State::Init)
replaced(src) == [src EXCEPT !.state = StateInit]

\* self.reader.read_block(&mut reader): the next block, none at the end
read_block(reader) ==
    IF reader.blocks # <<>> THEN Ok(Some(Head(reader.blocks)))
    ELSE IF reader.fails THEN Err("ParquetError", "cannot read the row group")
    ELSE Ok(None)

\* the reader after it has yielded a block
advanced(reader) == [reader EXCEPT !.blocks = Tail(@)]

\* a source that keeps the reader that is finished
reader_kept(src, reader) == [src EXCEPT !.state = ReadRowGroup(reader)]

\* Else: The reader is finished.  The state stays Init
reader_finished(src, reader) == src

\* State::ReadRowGroup(mut reader), from the result of read_block on
process_read_block(src, reader, read) ==
    IF ~IsOk(read) THEN Outcome(src, read, <<>>, None)
    ELSE IF read.val # None
    THEN Outcome([src EXCEPT !.generated_data = read.val,
                             !.state = ReadRowGroup(advanced(reader))],
                 Unit, <<>>, read.val)
    ELSE Outcome(reader_finished(src, reader), Unit, <<>>, None)

\* a file of a ParquetFiles partition: whether the operator reads it, whether
\* its bytes decode, and the blocks they decode to
File(path, readable, decodable, blocks) ==
    [path |-> path, readable |-> readable, decodable |-> decodable, blocks |-> blocks]

\* copy_status.add_chunk(path, FileStatus { num_rows_loaded, error: None })
FileStatus(buffer) == [path |-> buffer.path, num_rows_loaded |-> SumRows(buffer.blocks)]

\* the loop over the buffers: the blocks and the chunks up to the first buffer
\* that does not decode
RECURSIVE read_buffers(_)
read_buffers(buffers) ==
    IF buffers = <<>> THEN [ok |-> TRUE, blocks |-> <<>>, chunks |-> <<>>]
    ELSE IF ~Head(buffers).decodable THEN [ok |-> FALSE, blocks |-> <<>>, chunks |-> <<>>]
    ELSE [ok |-> read_buffers(Tail(buffers)).ok,
          blocks |-> Head(buffers).blocks \o read_buffers(Tail(buffers)).blocks,
          chunks |-> <<FileStatus(Head(buffers))>> \o read_buffers(Tail(buffers)).chunks]

\* if self.is_copy: only a copy adds chunks to the copy status
copy_chunks(src, chunks) == IF src.is_copy THEN chunks ELSE <<>>

\* State::ReadFiles(buffers), from the loop over the buffers on
process_blocks(src, read) ==
    IF ~read.ok
    THEN Outcome(src, Err("BadBytes", "cannot read blocks from binary"),
                 copy_chunks(src, read.chunks), None)
    ELSE IF read.blocks # <<>>
    THEN Outcome([src EXCEPT !.generated_data = Some(concat(read.blocks))], Unit,
                 copy_chunks(src, read.chunks), Some(concat(read.blocks)))
    ELSE Outcome(src, Unit, copy_chunks(src, read.chunks), None)

process(src) ==
    IF src.state.k = "ReadRowGroup"
    THEN process_read_block(replaced(src), src.state.reader, read_block(src.state.reader))
    ELSE IF src.state.k = "ReadFiles"
    THEN process_blocks(replaced(src), read_buffers(src.state.buffers))
    ELSE Outcome(replaced(src), Panic("unreachable"), <<>>, None)

\* a partition of the context: a row group with what
\* prepare_row_group_reader gives for it ("some" reader, "none", "error"),
\* a list of small files, or a part that is no ParquetPart
RowGroupPart(prepared, reader) ==
    [kind |-> "ParquetRSRowGroup", prepared |-> prepared, reader |-> reader, files |-> <<>>]
FilesPart(files) ==
    [kind |-> "ParquetFiles", prepared |-> "none", reader |-> NoReader, files |-> files]
OtherPart == [kind |-> "Other", prepared |-> "none", reader |-> NoReader, files |-> <<>>]

\* ParquetPart::ParquetRSRowGroup(part)
async_row_group(src, part) ==
    IF part.prepared = "error"
    THEN Outcome(src, Err("StorageOther", "cannot prepare the row group reader"), <<>>, None)
    ELSE IF part.prepared = "some"
    THEN Outcome([src EXCEPT !.state = ReadRowGroup(part.reader)], Unit, <<>>, None)
    ELSE Outcome(src, Unit, <<>>, None)

\* ParquetPart::ParquetFiles(parts)
async_files(src, part) ==
    IF \E i \in 1..Len(part.files) : ~part.files[i].readable
    THEN Outcome(src, Err("StorageOther", "cannot read the file"), <<>>, None)
    ELSE Outcome([src EXCEPT !.state = ReadFiles(part.files)], Unit, <<>>, None)

\* match ParquetPart::from_part(&part)?
async_part(src, part) ==
    IF part.kind = "ParquetRSRowGroup" THEN async_row_group(src, part)
    ELSE IF part.kind = "ParquetFiles" THEN async_files(src, part)
    ELSE IF part.kind = "Parquet2RowGroup"
    THEN Outcome(src, Panic("unreachable"), <<>>, None)
    ELSE Outcome(src, Err("Internal", "Cannot downcast from PartInfo to ParquetPart"),
                 <<>>, None)

\* async_process on the partitions the context has left
async_process(src, parts) ==
    IF src.state.k # "Init" THEN Outcome(replaced(src), Panic("unreachable"), <<>>, None)
    ELSE IF parts = <<>> THEN Outcome([src EXCEPT !.is_finished = TRUE], Unit, <<>>, None)
    ELSE async_part(src, Head(parts))

\* self.ctx.get_partition() takes the first partition left
after_get_partition(src, parts) ==
    IF src.state.k = "Init" /\ parts # <<>> THEN Tail(parts) ELSE parts

\* what the executor does after a call: another event after Ok, none after an
\* error or a panic
after_call(result) ==
    IF IsOk(result) THEN "Event" ELSE IF IsErr(result) THEN "Failed" ELSE "Panic"

\* the partitions drawn as input
BlockA == DataBlock(1, 8)
BlockB == DataBlock(2, 16)
Readers ==
    {Reader(<<BlockA, BlockB>>, FALSE), Reader(<<>>, FALSE), Reader(<<BlockA>>, TRUE)}
Parts ==
    {RowGroupPart("some", r) : r \in Readers}
    \cup {RowGroupPart("none", NoReader), RowGroupPart("error", NoReader)}
    \cup {FilesPart(<<File("f1", TRUE, TRUE, <<BlockA>>), File("f2", TRUE, TRUE, <<BlockB>>)>>),
          FilesPart(<<File("f1", TRUE, TRUE, <<>>)>>),
          FilesPart(<<File("f1", TRUE, TRUE, <<BlockB>>), File("f2", TRUE, FALSE, <<>>)>>),
          FilesPart(<<File("f1", FALSE, TRUE, <<>>)>>),
          OtherPart}
Partitions == SeqsUpTo(Parts, MaxParts)

\* the source before any partition is drawn: what the entry points of the
\* expression compiler leave alone
SourceIdle ==
    /\ source = NewSource(FALSE)
    /\ output = NewPort
    /\ scan_progress = NoProgress
    /\ copy_status = <<>>
    /\ ctx = <<>>
    /\ scheduled = "Event"
    /\ history = [produced |-> <<>>, pushed |-> <<>>, cancelled |-> FALSE]

source_vars == <<source, output, scan_progress, copy_status, ctx, scheduled, history>>

(***************************************************************************)
(* The state machine of the entry points.                                   *)
(***************************************************************************)
Init ==
    /\ \E input \in Inputs :
          /\ table_meta = input.table_meta
          /\ sql = input.sql
          /\ field = input.field
    /\ op = "none"
    /\ ret = NoRet
    /\ SourceIdle

Call_(name, result) ==
    /\ op' = name
    /\ ret' = result
    /\ UNCHANGED <<table_meta, sql, field>>
    /\ UNCHANGED source_vars

\* the entry points that take one parsed expression are called with the
\* expression of a text that has exactly one
SingleAst == sql.parse_ok /\ Len(sql.exprs) = 1

ParseExprs == Call_("parse_exprs", parse_exprs(table_meta, sql))

ParseToFilters == Call_("parse_to_filters", parse_to_filters(table_meta, sql))

ParseDefaultExprToString ==
    /\ SingleAst
    /\ Call_("parse_default_expr_to_string",
             parse_default_expr_to_string(field, sql.exprs[1]))

ParseComputedExprToString ==
    /\ SingleAst
    /\ Call_("parse_computed_expr_to_string",
             parse_computed_expr_to_string(schema(table_meta), field, sql.exprs[1]))

ParseClusterKeys == Call_("parse_cluster_keys", parse_cluster_keys(table_meta, sql))

ParseHilbertClusterKey ==
    Call_("parse_hilbert_cluster_key", parse_hilbert_cluster_key(table_meta, sql))

AnalyzeClusterKeys == Call_("analyze_cluster_keys", analyze_cluster_keys(table_meta, sql))

FieldDefaultValue ==
    \E rnd \in RandValues :
        Call_("field_default_value", field_default_value(field, sql, rnd))

\* a call with its result and what it was called on
Observed(result, columns, scope) ==
    [tag |-> result.tag, code |-> result.code, val |-> result.val,
     columns |-> columns, scope |-> scope]

BindTableOf(columns) ==
    Call_("bind_table", Observed(bind_columns(columns), columns, <<>>))

BindTable ==
    \E extra \in ExtraColumns :
        BindTableOf(columns_by_table_index([table_meta EXCEPT !.extra = extra]))

ParseLambdaExpr ==
    /\ SingleAst
    /\ IsOk(bind_table(table_meta))
    /\ \E columns \in LambdaColumns :
          Call_("parse_lambda_expr",
                Observed(parse_lambda_expr(bind_table(table_meta).val, columns, sql.exprs[1]),
                         columns, lambda_scope(bind_table(table_meta).val, columns)))

Next ==
    \/ ParseExprs
    \/ ParseToFilters
    \/ ParseDefaultExprToString
    \/ ParseComputedExprToString
    \/ ParseClusterKeys
    \/ ParseHilbertClusterKey
    \/ AnalyzeClusterKeys
    \/ FieldDefaultValue
    \/ BindTable
    \/ ParseLambdaExpr

Spec == Init /\ [][Next]_vars

(***************************************************************************)
(* The state machine of the parquet scan source.                           *)
(***************************************************************************)
parser_vars == <<table_meta, sql, field, op, ret>>

\* the arguments of the expression compiler, which the source leaves alone
ParserIdle ==
    /\ table_meta = DummyTable
    /\ sql = BadText
    /\ field = TableField("c", T("Int32"), FALSE)
    /\ op = "none"
    /\ ret = NoRet

SourceInit ==
    /\ ParserIdle
    /\ \E is_copy \in BOOLEAN : source = NewSource(is_copy)
    /\ output = NewPort
    /\ scan_progress = NoProgress
    /\ copy_status = <<>>
    /\ ctx \in Partitions
    /\ scheduled = "Event"
    /\ history = [produced |-> <<>>, pushed |-> <<>>, cancelled |-> FALSE]

\* the executor calls event when the processor is scheduled, and again when
\* its port changes or after it has returned NeedConsume or Finished
EventDone(outcome) ==
    /\ source' = outcome.source
    /\ output' = outcome.output
    /\ scan_progress' = outcome.scan_progress
    /\ scheduled' = outcome.event
    /\ history' = [history EXCEPT !.pushed = @ \o outcome.pushed]
    /\ UNCHANGED <<copy_status, ctx>>

Event ==
    /\ scheduled \in {"Event", "NeedConsume", "Finished"}
    /\ EventDone(event(source, output, scan_progress))
    /\ UNCHANGED parser_vars

CallDone(outcome) ==
    /\ source' = outcome.source
    /\ scheduled' = after_call(outcome.result)
    /\ copy_status' = copy_status \o outcome.chunks
    /\ history' = [history EXCEPT !.produced = @ \o outcome.block]
    /\ UNCHANGED <<output, scan_progress>>

\* the executor calls process after event has returned Sync
Process ==
    /\ scheduled = "Sync"
    /\ CallDone(process(source))
    /\ UNCHANGED ctx
    /\ UNCHANGED parser_vars

\* the executor calls async_process after event has returned Async
AsyncProcess ==
    /\ scheduled = "Async"
    /\ CallDone(async_process(source, ctx))
    /\ ctx' = after_get_partition(source, ctx)
    /\ UNCHANGED parser_vars

\* the pipeline runs until a call fails
Running == scheduled \notin {"Failed", "Panic"}

\* the consumer of the port asks for data
SetNeedData ==
    /\ Running
    /\ ~output.finished /\ output.data = None /\ ~output.need_data
    /\ output' = [output EXCEPT !.need_data = TRUE]
    /\ UNCHANGED <<source, scan_progress, copy_status, ctx, scheduled, history>>
    /\ UNCHANGED parser_vars

\* the consumer of the port takes the block it holds
PullData ==
    /\ Running
    /\ output.data # None
    /\ output' = [output EXCEPT !.data = None]
    /\ UNCHANGED <<source, scan_progress, copy_status, ctx, scheduled, history>>
    /\ UNCHANGED parser_vars

\* the consumer of the port finishes it
FinishDownstream ==
    /\ Running
    /\ ~output.finished
    /\ output' = finish(output)
    /\ history' = [history EXCEPT !.cancelled = TRUE]
    /\ UNCHANGED <<source, scan_progress, copy_status, ctx, scheduled>>
    /\ UNCHANGED parser_vars

SourceNext ==
    \/ Event
    \/ Process
    \/ AsyncProcess
    \/ SetNeedData
    \/ PullData
    \/ FinishDownstream

SourceSpec == SourceInit /\ [][SourceNext]_vars

\* the executor runs every call it has scheduled, and the consumer of the
\* port goes on taking blocks and asking for more
FairSourceSpec ==
    /\ SourceSpec
    /\ WF_vars(Event)
    /\ WF_vars(Process)
    /\ WF_vars(AsyncProcess)
    /\ WF_vars(SetNeedData)
    /\ WF_vars(PullData)

(***************************************************************************)
(* Properties.                                                             *)
(***************************************************************************)
\* the scope of the table of the call, and the keys of its text
Scope == bind_table(table_meta).val
Keys == unwrap_tuple(sql.exprs)
OneTopLevel == sql.parse_ok /\ Len(sql.exprs) = 1
Resolves(ast) == IsOk(resolve_expr(Scope, ast))
Lowered(ast) == resolve_expr(Scope, ast).val

HilbertSupported(t) ==
    t.base \in NumberTypes \cup DecimalTypes \cup {"Date", "Timestamp", "Boolean", "String"}

\* C1: parse_hilbert_cluster_key on a text of one top-level expression: a
\* number of dimensions outside 2..5 is an InvalidClusterKeys error; 2..5
\* dimensions that resolve to supported types give exactly one expression,
\* the hilbert_index call.
C1_HilbertDimensions ==
    (op = "parse_hilbert_cluster_key" /\ OneTopLevel) =>
        /\ Len(Keys) \notin 2..5 => (IsErr(ret) /\ ret.code = "InvalidClusterKeys")
        /\ (/\ Len(Keys) \in 2..5
            /\ \A i \in 1..Len(Keys) :
                  Resolves(Keys[i]) /\ HilbertSupported(Lowered(Keys[i]).data_type))
           => (/\ IsOk(ret)
               /\ Len(ret.val) = 1
               /\ ret.val[1].k = "FunctionCall"
               /\ ret.val[1].name = "hilbert_index")

C1_Witness ==
    /\ op = "parse_hilbert_cluster_key"
    /\ OneTopLevel
    /\ Len(Keys) = 5
    /\ IsOk(ret)
    /\ Len(ret.val) = 1

\* the keys handed to array(), and the width handed to hilbert_index()
HilbertKeys == ret.val[1].args[1].args
HilbertWidth == ret.val[1].args[2].scalar.v
NullRow == [i \in 1..Len(Scope) |-> Null]
Sentinel(w) == Binary([j \in 1..w |-> 255])

IsNullReplaced(key, w) ==
    /\ key.k = "FunctionCall" /\ key.name = "if" /\ Len(key.args) = 3
    /\ key.args[1].k = "FunctionCall" /\ key.args[1].name = "is_not_null"
    /\ key.args[2].k = "FunctionCall" /\ key.args[2].name = "assume_not_null"
    /\ key.args[1].args = key.args[2].args
    /\ Len(key.args[1].args) = 1
    /\ key.args[1].args[1].k = "FunctionCall"
    /\ key.args[1].args[1].name = "hilbert_key"
    /\ key.args[3] = Constant(Sentinel(w), T("Binary"))

\* C2: in a compiled Hilbert key, every dimension of nullable type is
\* if(is_not_null(k), assume_not_null(k), S) with k its hilbert_key call and S
\* the binary constant of W bytes 0xFF; on a null input it evaluates to S; and
\* no element of the array is nullable.
C2_HilbertNullSentinel ==
    (op = "parse_hilbert_cluster_key" /\ IsOk(ret)) =>
        /\ Len(HilbertKeys) = Len(Keys)
        /\ \A i \in 1..Len(Keys) :
              /\ ~is_nullable(HilbertKeys[i].data_type)
              /\ is_nullable(Lowered(Keys[i]).data_type) =>
                    /\ IsNullReplaced(HilbertKeys[i], HilbertWidth)
                    /\ Eval(HilbertKeys[i], NullRow, 0) = Sentinel(HilbertWidth)

C2_Witness ==
    /\ op = "parse_hilbert_cluster_key"
    /\ IsOk(ret)
    /\ HilbertWidth = 4
    /\ \E i \in 1..Len(Keys) :
          /\ is_nullable(Lowered(Keys[i]).data_type)
          /\ Eval(HilbertKeys[i], NullRow, 0) = Sentinel(4)

\* the positions of the resolved expressions of the text all lie in the schema
InSchema ==
    \A i \in 1..Len(sql.exprs) :
        Resolves(sql.exprs[i]) =>
            \A id \in column_refs(Lowered(sql.exprs[i])) : id < Len(schema(table_meta))
AllResolve == \A i \in 1..Len(sql.exprs) : Resolves(sql.exprs[i])
FilterOf(ast) == project_name(Lowered(ast), schema(table_meta))
Negation(filter) == FunctionCall("not", <<filter>>, filter.data_type)
NegationTypeChecks(ast) == IsOk(check_function("not", <<Lowered(ast)>>))
CountMismatch(n) == Err("BadDataValueType", <<"Expected single expr, but got", n>>)

DefaultScalar == resolve(<<>>, sql.exprs[1])
ComputedScalar == resolve(schema_scope(schema(table_meta)), sql.exprs[1])
\* the default expression cast to the declared type, and the value of that cast
CastDefault == Cast(as_expr(DefaultScalar.val).val, field.data_type)
CastValue == Eval(CastDefault, <<>>, 0)

\* C4: a computed-column expression whose resolved type is not the declared
\* type is a semantic error; an evaluable default expression whose resolved
\* type is not the declared type is accepted as its cast to the declared type
\* (the text of the cast, or of its value when the cast folds to a constant).
C4_TypeMismatchPolicy ==
    /\ (/\ op = "parse_computed_expr_to_string"
        /\ IsOk(ComputedScalar)
        /\ ComputedScalar.val.data_type # field.data_type)
       => (IsErr(ret) /\ ret.code = "SemanticError")
    /\ (/\ op = "parse_default_expr_to_string"
        /\ IsOk(DefaultScalar)
        /\ evaluable(DefaultScalar.val)
        /\ DefaultScalar.val.data_type # field.data_type)
       => /\ IsOk(ret)
          /\ ret.val.is_deterministic = is_deterministic(CastDefault)
          /\ IF ret.val.is_deterministic /\ CastValue.t # "EvalError"
             THEN ret.val.text = <<ScalarText(CastValue)>>
             ELSE ret.val.text = sql_display(CastDefault)

C4_Witness ==
    /\ op = "parse_default_expr_to_string"
    /\ IsOk(DefaultScalar)
    /\ DefaultScalar.val.data_type = T("String")
    /\ field.data_type = T("Int32")
    /\ IsOk(ret)
    /\ ret.val.text = sql_display(CastDefault)

\* whether a lowered key is a call of substr
IsSubstr(expr) == expr.k = "FunctionCall" /\ expr.name = "substr"
Prefix(expr) ==
    FunctionCall("substr",
                 <<expr, Constant(Num(1), T("Int64")), Constant(Num(8), T("UInt64"))>>,
                 expr.data_type)

\* C5: parse_cluster_keys on keys that resolve returns, key by key,
\* substr(key, 1, 8) for a key of string type that is not a substr call and
\* the key itself otherwise; the linear step leaves every returned key as it
\* is.
C5_LinearPrefix ==
    (op = "parse_cluster_keys" /\ OneTopLevel) =>
        /\ (\A i \in 1..Len(Keys) : Resolves(Keys[i])) <=> IsOk(ret)
        /\ IsOk(ret) =>
              /\ Len(ret.val) = Len(Keys)
              /\ \A i \in 1..Len(Keys) :
                    /\ ret.val[i] =
                          IF /\ remove_nullable(Lowered(Keys[i]).data_type) = T("String")
                             /\ ~IsSubstr(Lowered(Keys[i]))
                          THEN Prefix(Lowered(Keys[i]))
                          ELSE Lowered(Keys[i])
                    /\ linear_key(ret.val[i]) = Ok(ret.val[i])

C5_Witness ==
    /\ op = "parse_cluster_keys"
    /\ IsOk(ret)
    /\ \E i, j \in 1..Len(Keys) :
          /\ Lowered(Keys[i]).k = "ColumnRef"
          /\ ret.val[i] = Prefix(Lowered(Keys[i]))
          /\ IsSubstr(Lowered(Keys[j]))
          /\ ret.val[j] = Lowered(Keys[j])

\* the default expression of the field, lowered in a scope without columns
DefaultExpr == resolve_expr(<<>>, sql.exprs[1])
OnePlusOne == Text(<<Call("plus", <<One, One>>)>>)

\* C6: field_default_value of a field without default expression is the
\* default value of its type (0 for Int32), whatever the text; of a field of
\* a number type with default 1+1 it is the value 2; every value it returns
\* for a default expression is the value of the expression cast to the type
\* of the field.
C6_FieldDefaultValue ==
    op = "field_default_value" =>
        /\ ~field.has_default =>
              /\ ret = Ok(default_value(field.data_type))
              /\ field.data_type = T("Int32") => ret = Ok(Num(0))
        /\ (field.has_default /\ sql = OnePlusOne /\ field.data_type.base \in NumberTypes)
              => ret = Ok(Num(2))
        /\ (field.has_default /\ IsOk(ret)) =>
              /\ OneTopLevel
              /\ IsOk(DefaultExpr)
              /\ ret.val.t \in {"Number", "String", "Boolean", "Null"}
              /\ \E rnd \in RandValues :
                    ret.val = cast_scalar(Eval(DefaultExpr.val, <<>>, rnd), field.data_type)

C6_Witness ==
    /\ op = "field_default_value"
    /\ field.has_default
    /\ field.data_type = T("Int32")
    /\ sql = OnePlusOne
    /\ ret = Ok(Num(2))

\* whether a parsed expression names a column
RECURSIVE AstHasColumn(_)
AstHasColumn(ast) ==
    IF ast.k \in {"ColumnRef", "MapAccess"} THEN TRUE
    ELSE IF ast.k = "Literal" THEN FALSE
    ELSE LET items == IF ast.k = "Tuple" THEN ast.exprs ELSE ast.args IN
         \E i \in 1..Len(items) : AstHasColumn(items[i])

\* C7: the table a default expression is compiled against binds no column,
\* and field_default_value of a default expression that names a column is a
\* semantic error.
C7_DefaultSeesNoColumn ==
    /\ bind_table(default_value_table) = Ok(<<>>)
    /\ (/\ op = "field_default_value"
        /\ field.has_default
        /\ sql.parse_ok
        /\ \E i \in 1..Len(sql.exprs) : AstHasColumn(sql.exprs[i]))
       => (IsErr(ret) /\ ret.code = "SemanticError")

C7_Witness ==
    /\ op = "field_default_value"
    /\ field.has_default
    /\ sql = Text(<<Call("plus", <<Ident("a"), One>>)>>)
    /\ IsErr(ret)
    /\ ret.code = "SemanticError"

C9_FailuresReturned ==
    op \in {"parse_cluster_keys", "parse_hilbert_cluster_key"} =>
        /\ ~IsPanic(ret)
        /\ (sql.parse_ok /\ Len(sql.exprs) # 1) => IsErr(ret)

\* whether analyze_cluster_keys is to take a key: it resolves, refers to
\* exactly one column, is evaluable and deterministic, and is of a clustering
\* type
ValidKey(ast) ==
    LET r == resolve(Scope, ast) IN
    /\ IsOk(r)
    /\ Cardinality(used_columns(r.val)) = 1
    /\ evaluable(r.val)
    /\ is_deterministic(Lowered(ast))
    /\ remove_nullable(r.val.data_type).base
          \in NumberTypes \cup DecimalTypes \cup {"String", "Timestamp", "Date", "Boolean"}

\* the number of keys of a rendered key list: one more than its commas
\* outside the parentheses of the keys
RECURSIVE TopLevelCommas(_, _)
TopLevelCommas(tokens, depth) ==
    IF tokens = <<>> THEN 0
    ELSE LET h == Head(tokens)
             d == IF h = "(" THEN depth + 1 ELSE IF h = ")" THEN depth - 1 ELSE depth
         IN (IF h = "," /\ depth = 1 THEN 1 ELSE 0) + TopLevelCommas(Tail(tokens), d)
RenderedKeyCount(tokens) == TopLevelCommas(tokens, 0) + 1

\* C10: analyze_cluster_keys succeeds exactly when every key is valid; the
\* first key that resolves but is not valid, after valid ones, makes the call
\* an InvalidClusterKeys error; on success the expressions are the lowered
\* keys in order and the text renders as many keys, the normalized keys in the
\* same order.
C10_AnalyzeClusterKeys ==
    (op = "analyze_cluster_keys" /\ sql.parse_ok) =>
        /\ IsOk(ret) <=> \A i \in 1..Len(Keys) : ValidKey(Keys[i])
        /\ \A i \in 1..Len(Keys) :
              (/\ \A j \in 1..(i - 1) : ValidKey(Keys[j])
               /\ IsOk(resolve(Scope, Keys[i]))
               /\ ~ValidKey(Keys[i]))
              => (IsErr(ret) /\ ret.code = "InvalidClusterKeys")
        /\ IsOk(ret) =>
              /\ Len(ret.val.exprs) = Len(Keys)
              /\ \A i \in 1..Len(Keys) : ret.val.exprs[i] = Lowered(Keys[i])
              /\ RenderedKeyCount(ret.val.cluster_by_str) = Len(ret.val.exprs)
              /\ ret.val.cluster_by_str =
                    <<"(">> \o JoinTokens([i \in 1..Len(Keys) |-> Display(normalize(Keys[i]))], ",")
                    \o <<")">>

C10_Witness ==
    /\ op = "analyze_cluster_keys"
    /\ IsOk(ret)
    /\ Len(ret.val.exprs) = 3
    /\ RenderedKeyCount(ret.val.cluster_by_str) = 3
    /\ \E i \in 1..3 : ret.val.exprs[i].k = "FunctionCall"

\* the default expression as parse_default_expr_to_string lowers it, cast to
\* the declared type when its type differs, and the value it evaluates to
LoweredDefault ==
    as_expr(default_cast(DefaultScalar.val, DefaultScalar.val.data_type, field.data_type))
LoweredDefaultValue == Eval(LoweredDefault.val, <<>>, 0)

\* C11: parse_default_expr_to_string folds exactly the deterministic default
\* expressions: a non-deterministic one is returned as it is with the flag
\* false; a deterministic one that evaluates is returned as its value with the
\* flag true; a deterministic one whose evaluation fails makes the call an
\* error.
C11_FoldingPolicy ==
    (/\ op = "parse_default_expr_to_string"
     /\ IsOk(DefaultScalar)
     /\ evaluable(DefaultScalar.val)
     /\ IsOk(LoweredDefault))
    => IF ~is_deterministic(LoweredDefault.val)
       THEN /\ IsOk(ret)
            /\ ~ret.val.is_deterministic
            /\ ret.val.text = sql_display(LoweredDefault.val)
       ELSE IF LoweredDefaultValue.t # "EvalError"
       THEN /\ IsOk(ret)
            /\ ret.val.is_deterministic
            /\ ret.val.text = <<ScalarText(LoweredDefaultValue)>>
       ELSE IsErr(ret)

\* the canonical width of a dimension type, and the common width of the keys
\* of the text
CanonicalWidth(t) ==
    CASE t.base \in {"Int8", "UInt8", "Boolean"} -> 1
      [] t.base \in {"Int16", "UInt16"} -> 2
      [] t.base \in {"Int32", "UInt32", "Float32", "Date"} -> 4
      [] t.base \in {"Int64", "UInt64", "Float64", "Timestamp"} -> 8
      [] t.base = "Decimal128" -> 16
      [] t.base = "Decimal256" -> 32
      [] t.base = "String" -> 24
      [] OTHER -> 0
RECURSIVE WidestKey(_)
WidestKey(keys) ==
    IF keys = <<>> THEN 0
    ELSE LET w == CanonicalWidth(Lowered(Head(keys)).data_type)
             rest == WidestKey(Tail(keys))
         IN IF w > rest THEN w ELSE rest
CommonWidth == IF WidestKey(Keys) > 8 THEN 8 ELSE WidestKey(Keys)
AcceptedHilbertInput ==
    /\ OneTopLevel
    /\ Len(Keys) \in 2..5
    /\ \A i \in 1..Len(Keys) :
          Resolves(Keys[i]) /\ HilbertSupported(Lowered(Keys[i]).data_type)
SentinelOf(key) == key.args[3].scalar.v

\* C12: on 2..5 dimensions of supported types the common width W = min(8,
\* widest canonical width) is one of 1, 2, 4, 8, parse_hilbert_cluster_key
\* does not reach the unreachable branch of the common-cast selection, and the
\* same W is the second argument of hilbert_index and the length of the
\* sentinel of every null-replaced dimension.
C12_HilbertCommonWidth ==
    (op = "parse_hilbert_cluster_key" /\ AcceptedHilbertInput) =>
        /\ CommonWidth \in {1, 2, 4, 8}
        /\ IsOk(ret)
        /\ ret.val[1].name = "hilbert_index"
        /\ ret.val[1].args[2] = Constant(Num(CommonWidth), T("UInt64"))
        /\ \A i \in 1..Len(HilbertKeys) :
              is_nullable(Lowered(Keys[i]).data_type) =>
                  /\ HilbertKeys[i].name = "if"
                  /\ Len(SentinelOf(HilbertKeys[i])) = CommonWidth

C12_Witness ==
    /\ op = "parse_hilbert_cluster_key"
    /\ AcceptedHilbertInput
    /\ IsOk(ret)
    /\ CommonWidth = 2
    /\ HilbertWidth = 2
    /\ \E i \in 1..Len(Keys) :
          /\ is_nullable(Lowered(Keys[i]).data_type)
          /\ SentinelOf(HilbertKeys[i]) = <<255, 255>>

\* the common integer cast of a width, and the cast the i-th dimension is to
\* get: decided on its type without the nullable wrapper
CommonCastOf(w) ==
    CASE w = 1 -> "to_int8" [] w = 2 -> "to_int16" [] w = 4 -> "to_int32"
      [] w = 8 -> "to_int64" [] OTHER -> "none"
ExpectedCast(t) ==
    IF t.base \in {"Date", "Timestamp", "Boolean"} THEN CommonCastOf(CommonWidth)
    ELSE IF t.base \in {"Decimal128", "Decimal256"} THEN "to_float64"
    ELSE IF t.base \in NumberTypes /\ CanonicalWidth(t) < CommonWidth
    THEN (IF t.base = "Float32" THEN "to_float64" ELSE CommonCastOf(CommonWidth))
    ELSE ""
\* the hilbert_key call of the i-th dimension of the result: the dimension
\* itself, or what the null replacement tests and unwraps
HilbertKeyCall(i) ==
    IF HilbertKeys[i].name = "if" THEN HilbertKeys[i].args[1].args[1] ELSE HilbertKeys[i]
IsCastOf(e, cast, dim) ==
    IF cast = "" THEN e = dim
    ELSE e.k = "FunctionCall" /\ e.name = cast /\ e.args = <<dim>>

\* C13: in a compiled Hilbert key every dimension is one hilbert_key call over
\* the dimension, cast as its nullable-stripped type asks: date, timestamp
\* and boolean to the common integer of width W, decimal to float64, a number
\* narrower than W to float64 if it is Float32 and to the common integer
\* otherwise, any other uncast; the null replacement, where there is one, is
\* over that hilbert_key call; and what is fed to hilbert_key, unless a
\* string, has width W.
C13_HilbertNormalization ==
    (op = "parse_hilbert_cluster_key" /\ AcceptedHilbertInput /\ IsOk(ret)) =>
        /\ Len(HilbertKeys) = Len(Keys)
        /\ \A i \in 1..Len(Keys) :
              /\ HilbertKeys[i].name \in {"if", "hilbert_key"}
              /\ HilbertKeys[i].name = "if" =>
                    /\ HilbertKeys[i].args[1].name = "is_not_null"
                    /\ HilbertKeys[i].args[1].args = <<HilbertKeyCall(i)>>
                    /\ HilbertKeys[i].args[2].name = "assume_not_null"
                    /\ HilbertKeys[i].args[2].args = <<HilbertKeyCall(i)>>
              /\ HilbertKeyCall(i).k = "FunctionCall"
              /\ HilbertKeyCall(i).name = "hilbert_key"
              /\ Len(HilbertKeyCall(i).args) = 1
              /\ IsCastOf(HilbertKeyCall(i).args[1],
                          ExpectedCast(remove_nullable(Lowered(Keys[i]).data_type)),
                          Lowered(Keys[i]))
              /\ HilbertKeyCall(i).args[1].data_type.base # "String" =>
                    CanonicalWidth(HilbertKeyCall(i).args[1].data_type) = CommonWidth

C13_Witness ==
    /\ op = "parse_hilbert_cluster_key"
    /\ AcceptedHilbertInput
    /\ IsOk(ret)
    /\ CommonWidth = 8
    /\ \E i, j, k \in 1..Len(Keys) :
          /\ Lowered(Keys[i]).data_type = T("Float32")
          /\ HilbertKeyCall(i).args[1].name = "to_float64"
          /\ Lowered(Keys[j]).data_type = T("Date")
          /\ HilbertKeyCall(j).args[1].name = "to_int64"
          /\ Lowered(Keys[k]).data_type = T("Float64")
          /\ HilbertKeyCall(k).args[1] = Lowered(Keys[k])

\* C14: bind_table gives the i-th column entry the i-th binding: position i
\* (from 0), its name and type, InVisible exactly when it has path indices;
\* an entry that is no base-table column makes it an Internal error with no
\* scope.  parse_lambda_expr keeps the n existing bindings as they are and
\* appends its k parameters at positions n .. n+k-1, Visible, so the positions
\* of the scope stay pairwise distinct.
C14_ScopePositions ==
    /\ op = "bind_table" =>
          IF \E i \in 1..Len(ret.columns) : ret.columns[i].kind # "BaseTableColumn"
          THEN IsErr(ret) /\ ret.code = "Internal"
          ELSE /\ IsOk(ret)
               /\ Len(ret.val) = Len(ret.columns)
               /\ \A i \in 1..Len(ret.columns) :
                     /\ ret.val[i].index = i - 1
                     /\ ret.val[i].column_name = ret.columns[i].column_name
                     /\ ret.val[i].data_type = ret.columns[i].data_type
                     /\ ret.val[i].visibility \in {"Visible", "InVisible"}
                     /\ ret.val[i].visibility = "InVisible"
                           <=> ret.columns[i].path_indices # <<>>
    /\ op = "parse_lambda_expr" =>
          /\ Len(ret.scope) = Len(Scope) + Len(ret.columns)
          /\ SubSeq(ret.scope, 1, Len(Scope)) = Scope
          /\ \A idx \in 1..Len(ret.columns) :
                ret.scope[Len(Scope) + idx] =
                    [column_name |-> ret.columns[idx].name,
                     index |-> Len(Scope) + idx - 1,
                     data_type |-> ret.columns[idx].data_type,
                     visibility |-> "Visible"]
          /\ \A i, j \in 1..Len(ret.scope) :
                ret.scope[i].index = ret.scope[j].index => i = j
          /\ (IsOk(ret) /\ ret.val.k = "BoundColumnRef" /\ ret.val.column.column_name = "zz")
                => ret.val.column.index >= Len(Scope)

C14_Witness ==
    /\ op = "parse_lambda_expr"
    /\ Len(ret.columns) = 2
    /\ Len(Scope) = 3
    /\ IsOk(ret)
    /\ ret.val.k = "BoundColumnRef"
    /\ ret.val.column.index = 4

\* C15: event has returned Async only in state Init and Sync only in state
\* ReadRowGroup or ReadFiles, both only while the source is not finished and
\* holds no generated block; so process, called after Sync, and
\* async_process, called after Async, never reach their unreachable branch.
C15_CallProtocol ==
    /\ scheduled = "Async" =>
          /\ source.state.k = "Init"
          /\ ~source.is_finished
          /\ source.generated_data = None
    /\ scheduled = "Sync" =>
          /\ source.state.k \in {"ReadRowGroup", "ReadFiles"}
          /\ ~source.is_finished
          /\ source.generated_data = None
    /\ scheduled # "Panic"

C15_Witness ==
    /\ scheduled = "Sync"
    /\ source.state.k = "ReadFiles"
    /\ Len(history.pushed) = 2
    /\ ctx = <<>>

\* C16: process and async_process run only while no generated block is
\* held; the blocks pushed are, in order and each once, the blocks produced,
\* but for the one still held; the scan progress is the rows and bytes of
\* the blocks pushed; the source is finished only while no block is held, so
\* Finished is returned with a block held only after the consumer has
\* finished the port.
C16_NoLossNoDuplicate ==
    /\ scheduled \in {"Sync", "Async"} => source.generated_data = None
    /\ history.produced = history.pushed \o source.generated_data
    /\ scan_progress.rows = SumRows(history.pushed)
    /\ scan_progress.bytes = SumBytes(history.pushed)
    /\ source.is_finished => source.generated_data = None
    /\ (scheduled = "Finished" /\ ~history.cancelled) =>
          /\ source.generated_data = None
          /\ history.pushed = history.produced

C16_Witness ==
    /\ Len(history.pushed) = 2
    /\ history.pushed[1] # history.pushed[2]
    /\ source.generated_data # None
    /\ scan_progress = [rows |-> 3, bytes |-> 24]
    /\ ~history.cancelled

\* no partition of the context fails: every part is a parquet part, every
\* reader can be prepared or is none, every read and every decoding succeeds
NoReadFails ==
    \A i \in 1..Len(ctx) :
        /\ ctx[i].kind \in {"ParquetRSRowGroup", "ParquetFiles"}
        /\ ctx[i].prepared # "error"
        /\ ~ctx[i].reader.fails
        /\ \A j \in 1..Len(ctx[i].files) :
              ctx[i].files[j].readable /\ ctx[i].files[j].decodable

\* a finished source stays as it is: it asks for no partition, produces no
\* block, and event returns Finished
FinishedForGood ==
    source.is_finished =>
        /\ source' = source
        /\ ctx' = ctx
        /\ history'.produced = history.produced
        /\ scheduled' \in {scheduled, "Finished"}

\* a row group without reader, a reader at its end and files without a block
\* leave the source in state Init, where event asks for async_process
BackToInit ==
    /\ (/\ scheduled = "Async" /\ scheduled' = "Event"
        /\ ctx # <<>>
        /\ Head(ctx).kind = "ParquetRSRowGroup" /\ Head(ctx).prepared = "none")
       => (source'.state.k = "Init" /\ ~source'.is_finished /\ ctx' = Tail(ctx))
    /\ (scheduled = "Sync" /\ scheduled' = "Event" /\ source'.generated_data = None)
       => source'.state.k = "Init"
    /\ (/\ scheduled = "Event" /\ scheduled' # "Event"
        /\ source.state.k = "Init" /\ source.generated_data = None
        /\ ~source.is_finished /\ can_push(output))
       => scheduled' = "Async"

\* C17: when no partition of the context fails, event eventually returns
\* Finished with the output port finished; once the source is finished every
\* later event returns Finished and no partition is asked for and no block
\* produced; a row group whose reader cannot be prepared, a reader at its end
\* and a ReadFiles step without a block return the source to Init.
C17_Termination ==
    /\ NoReadFails => <>(scheduled = "Finished" /\ output.finished)
    /\ [][FinishedForGood]_vars
    /\ [][BackToInit]_vars

C17_Witness ==
    /\ scheduled = "Finished"
    /\ source.is_finished
    /\ output.finished
    /\ ~history.cancelled
    /\ ctx = <<>>
    /\ Len(history.pushed) = 3

====
